---- MODULE Spec2Model ----
(***************************************************************************)
(* FreeWise: the review selector (get_review_highlights) and the review-   *)
(* session state machine of app/routers/highlights.py.                     *)
(*                                                                         *)
(* Storage (Highlight, Book, Settings, ReviewSession rows) and the         *)
(* process-wide dict review_sessions are the state; every handler is one   *)
(* action, taken as a whole.  The random choices of weighted_pick, the     *)
(* request parameters and the cookie a client sends are nondeterministic.  *)
(*                                                                         *)
(* The clock reads whole days (the unit of get_days_since): requests may   *)
(* see the same reading, and Tick moves it on by a day, so that an elapsed *)
(* time of 0 (score 0), of one day (positive score, session not expired)   *)
(* and of more than 86400 seconds (session expired) all occur.             *)
(* Floats are fixed-point integers: a book weight w stands for             *)
(* w / WeightOne, a time score s for s / Scale.  None is Python's None.    *)
(* The book handlers of app/routers/library.py and get_or_create_book of   *)
(* the importer are modelled too; SpecBooks runs them on their own.        *)
(* Books and highlights are not deleted.  Of a book the title, the tags,   *)
(* the cover and the review weight are kept; authors are left out (every   *)
(* book has author None).  A submitted weight is a float in tenths, or NaN.*)
(***************************************************************************)
EXTENDS Integers, Sequences, FiniteSets, TLC

None == -1

\* ---- bounds of the model ------------------------------------------------
MaxSelHighlights == 4   \* highlights in storage (selector on its own)
MaxRequests == 3        \* requests served (session machine)
MaxNow == 2             \* last day the clock reaches
MaxBooks == 2           \* books in storage (book handlers on their own)
MaxStreakSessions == 4  \* durable rows read by the dashboard
MaxDay == 2             \* last session date of those rows
MaxFlagHighlights == 2  \* highlights created or imported (flag handlers)

\* ---- program constants --------------------------------------------------
tau_days == 14
DefaultDays == 30
DefaultCount == 5
IdleSeconds == 86400
DaySeconds == 86400
WeightOne == 10
WeightMax == 20
Scale == 10000
DecayPerDay == 9311     \* exp(-1 / tau_days) * Scale
NaN == 999              \* float("nan"): every comparison with it is false

BookIds == {1, 2}

VARIABLES
    highlights,          \* storage: id -> Highlight row
    books,               \* storage: id -> Book row
    daily_review_count,  \* Settings.daily_review_count
    now,                 \* datetime.utcnow(), in days
    review_sessions,     \* the in-memory map: token -> queue entry
    db_sessions,         \* storage: token -> ReviewSession row
    response,            \* what the last request returned
    requests             \* number of requests served

vars == <<highlights, books, daily_review_count, now, review_sessions,
          db_sessions, response, requests>>

Max(a, b) == IF a >= b THEN a ELSE b
Min(a, b) == IF a <= b THEN a ELSE b

HighlightIds == DOMAIN highlights

\* ---- the selector -------------------------------------------------------

get_book_weight(h) ==
    IF h.book_id /= None /\ h.book_id \in DOMAIN books
          /\ books[h.book_id].review_weight /= None
    THEN Max(0, books[h.book_id].review_weight)
    ELSE WeightOne

get_days_since(h) ==
    LET anchor == IF h.last_reviewed_at /= None THEN h.last_reviewed_at
                  ELSE h.created_at
    IN  IF anchor = None THEN DefaultDays ELSE Max(0, now - anchor)

\* exp(-days / tau_days) in fixed point
RECURSIVE ExpNeg(_)
ExpNeg(days) ==
    IF days = 0 THEN Scale ELSE (ExpNeg(days - 1) * DecayPerDay) \div Scale

time_score(days) == Scale - ExpNeg(days)

Score(id) == time_score(get_days_since(highlights[id])) * get_book_weight(highlights[id])

\* the rows of the query: status active and not discarded
ActiveHighlights ==
    {id \in HighlightIds : highlights[id].status = "active"
                           /\ ~highlights[id].is_discarded}

\* faulty variant: no candidate is skipped for its weight or its score
Candidates_Unscored == ActiveHighlights

\* the candidate list, as the set of the ids of its tuples
Candidates ==
    {id \in ActiveHighlights : get_book_weight(highlights[id]) > 0 /\ Score(id) > 0}

max_per_book(n) == IF n >= 4 THEN 2 ELSE 1

\* faulty variant: highlights without a book are not counted
book_count_BooklessFree(selected, b) ==
    IF b = None THEN 0
    ELSE Cardinality({i \in 1..Len(selected) : highlights[selected[i]].book_id = b})

\* book_counts of a selected prefix: defaultdict(int) keyed by book_id (None is a key)
book_count(selected, b) ==
    Cardinality({i \in 1..Len(selected) : highlights[selected[i]].book_id = b})

SumScore(items) ==
    LET RECURSIVE S(_)
        S(xs) == IF xs = {} THEN 0
                 ELSE LET x == CHOOSE y \in xs : TRUE IN Score(x) + S(xs \ {x})
    IN  S(items)

\* the items random.random() / random.choice can make weighted_pick return
weighted_pick(items) ==
    IF SumScore(items) <= 0 THEN items
    ELSE {c \in items : Score(c) > 0}

\* faulty variant: the per-book cap is not applied
Eligible_NoCap(selected, remaining, n) == remaining

Eligible(selected, remaining, n) ==
    {c \in remaining : book_count(selected, highlights[c].book_id) < max_per_book(n)}

\* the capped loop: the set of the <<selected, remaining>> it can end in
RECURSIVE CappedLoop(_, _, _)
CappedLoop(selected, remaining, n) ==
    IF Len(selected) < n /\ remaining /= {}
    THEN LET eligible == Eligible(selected, remaining, n)
         IN  IF eligible = {} THEN {<<selected, remaining>>}
             ELSE UNION {CappedLoop(Append(selected, pick), remaining \ {pick}, n)
                         : pick \in weighted_pick(eligible)}
    ELSE {<<selected, remaining>>}

\* faulty variant: the remaining slots are not filled
FillLoop_NoFill(selected, remaining, n) == {selected}

\* faulty variant: the fill loop runs until the pool is empty
RECURSIVE FillLoop_Overfill(_, _, _)
FillLoop_Overfill(selected, remaining, n) ==
    IF remaining /= {}
    THEN UNION {FillLoop_Overfill(Append(selected, pick), remaining \ {pick}, n)
                : pick \in weighted_pick(remaining)}
    ELSE {selected}

\* the fill loop that ignores the cap: the set of the lists it can return
RECURSIVE FillLoop(_, _, _)
FillLoop(selected, remaining, n) ==
    IF Len(selected) < n /\ remaining /= {}
    THEN UNION {FillLoop(Append(selected, pick), remaining \ {pick}, n)
                : pick \in weighted_pick(remaining)}
    ELSE {selected}

\* every list get_review_highlights(n) can return in the current state
get_review_highlights(n) ==
    IF ActiveHighlights = {} THEN {<<>>}
    ELSE IF Candidates = {} THEN {<<>>}
    ELSE UNION {FillLoop(st[1], st[2], n) : st \in CappedLoop(<<>>, Candidates, n)}

\* ---- responses ----------------------------------------------------------

Resp(code, kind, item, current, total) ==
    [code |-> code, kind |-> kind, item |-> item,
     current |-> current, total |-> total, items |-> <<>>, n |-> None,
     token |-> None]

NoResponse == Resp(0, "none", None, 0, 0)

\* GET /highlights/review/?n= : the selector as an endpoint
ReviewEndpoint(n) ==
    LET count == IF n = None THEN daily_review_count ELSE n
    IN  /\ \E result \in get_review_highlights(count) :
              response' = [Resp(200, "list", None, 0, 0)
                              EXCEPT !.items = result, !.n = count]
        /\ UNCHANGED <<highlights, books, daily_review_count, now,
                       review_sessions, db_sessions>>

\* a Highlight row with the defaults of the model class
NewHighlight(book) ==
    [book_id |-> book, text |-> "text", created_at |-> None,
     last_reviewed_at |-> None,
     status |-> "active", favorite |-> FALSE, is_favorited |-> FALSE,
     is_discarded |-> FALSE, review_count |-> 0]

\* document_tags is the list of its comma-separated tags; the empty list
\* stands for None and for "", which the handlers do not tell apart
NoTags == << >>

\* a Book row with the defaults of the model class
NewBook(title, document_tags) ==
    [title |-> title, document_tags |-> document_tags,
     review_weight |-> WeightOne, cover_image_url |-> None]

\* the titles of the books 1 and 2 of a library
TitleOf(b) == IF b = 1 THEN "t1" ELSE "t2"

\* ---- the review session machine -----------------------------------------

\* the session tokens issued so far (an unknown token acts as no token does)
Tokens == DOMAIN db_sessions
MissingId == 0

Exists(id) == id \in HighlightIds

\* select(ReviewSession).where(session_uuid == token).first()
HasRow(token) == token /= None /\ token \in DOMAIN db_sessions

Live(token) == token /= None /\ token \in DOMAIN review_sessions

Expired(ts, t) == (t - ts) * DaySeconds > IdleSeconds

should_create_new(review_session_id, reset) ==
    \/ reset
    \/ review_session_id = None
    \/ review_session_id \notin DOMAIN review_sessions
    \/ Expired(review_sessions[review_session_id].timestamp, now)

NewRow(n) ==
    [started_at |-> now, completed_at |-> None, session_date |-> now,
     target_count |-> n, highlights_reviewed |-> 0, highlights_discarded |-> 0,
     highlights_favorited |-> 0, is_completed |-> FALSE]

Put(f, k, v) == [x \in DOMAIN f \cup {k} |-> IF x = k THEN v ELSE f[x]]
Drop(f, ks) == [x \in DOMAIN f \ ks |-> f[x]]

\* faulty variant: the position is not reset to 0 when the queue is exhausted
ReviewPage_NoReset(store, token) ==
    LET e == store[token]
    IN  [Resp(200, "page",
              IF e.current_index < Len(e.highlight_ids)
              THEN e.highlight_ids[e.current_index + 1] ELSE None,
              e.current_index + 1, Len(e.highlight_ids)) EXCEPT !.token = token]

\* the page ui_review renders for the entry of a token
ReviewPage(store, token) ==
    LET e == store[token]
    IN  IF e.current_index < Len(e.highlight_ids)
        THEN [Resp(200, "page", e.highlight_ids[e.current_index + 1],
                   e.current_index + 1, Len(e.highlight_ids)) EXCEPT !.token = token]
        ELSE [Resp(200, "page", None, 0, Len(e.highlight_ids))
                   EXCEPT !.token = token]

\* faulty variant: the token of the latest session is issued again
new_session_id_Reused == Max(1, Cardinality(DOMAIN db_sessions))

\* str(uuid.uuid4()): a token no session has had
new_session_id == Cardinality(DOMAIN db_sessions) + 1

\* faulty variant: resuming moves the cursor on
resume_session_Advancing(review_session_id) ==
    LET e == review_sessions[review_session_id]
        store == IF e.current_index + 1 < Len(e.highlight_ids)
                 THEN [review_sessions EXCEPT ![review_session_id].current_index = @ + 1]
                 ELSE review_sessions
    IN  /\ review_sessions' = store
        /\ response' = ReviewPage(store, review_session_id)
        /\ UNCHANGED <<highlights, books, daily_review_count, now, db_sessions>>

\* the else branch of ui_review: resume the existing session
resume_session(review_session_id) ==
    /\ response' = ReviewPage(review_sessions, review_session_id)
    /\ UNCHANGED <<highlights, books, daily_review_count, now,
                   review_sessions, db_sessions>>

\* faulty variant: the sweep removes every entry but the new one
expired_sessions_AllOthers(store) == DOMAIN store \ {new_session_id}

\* "Clean up old sessions (older than 24 hours)": the entries to delete
expired_sessions(store) ==
    {sid \in DOMAIN store : Expired(store[sid].timestamp, now)}

\* GET /highlights/ui/review
ui_review(review_session_id, reset) ==
    IF should_create_new(review_session_id, reset)
    THEN /\ \E queue \in get_review_highlights(daily_review_count) :
              LET added == Put(review_sessions, new_session_id,
                               [highlight_ids |-> queue, current_index |-> 0,
                                timestamp |-> now])
                  store == Drop(added, expired_sessions(added))
              IN  /\ review_sessions' = store
                  /\ db_sessions' = Put(db_sessions, new_session_id,
                                        NewRow(daily_review_count))
                  /\ response' = ReviewPage(store, new_session_id)
         /\ UNCHANGED <<highlights, books, daily_review_count, now>>
    ELSE resume_session(review_session_id)

\* faulty variant: the durable row is not finalized when the queue is exhausted
Advance_NoFinalize(token, rows) ==
    LET e == review_sessions[token]
        current_index == e.current_index + 1
    IN  /\ db_sessions' = rows
        /\ IF current_index >= Len(e.highlight_ids)
           THEN /\ review_sessions' = Drop(review_sessions, {token})
                /\ response' = Resp(200, "complete", None, 0, 0)
           ELSE /\ review_sessions' = [review_sessions EXCEPT
                                           ![token].current_index = current_index]
                /\ response' = Resp(200, "card", e.highlight_ids[current_index + 1],
                                    current_index + 1, Len(e.highlight_ids))

\* faulty variant: the item acted on is taken out of the queue
Advance_DropCurrent(token, rows) ==
    LET e == review_sessions[token]
        rest == SubSeq(e.highlight_ids, e.current_index + 2, Len(e.highlight_ids))
    IN  IF rest = <<>>
        THEN /\ db_sessions' = IF token \in DOMAIN rows
                               THEN [rows EXCEPT ![token].completed_at = now,
                                                 ![token].is_completed = TRUE]
                               ELSE rows
             /\ review_sessions' = Drop(review_sessions, {token})
             /\ response' = Resp(200, "complete", None, 0, 0)
        ELSE /\ db_sessions' = rows
             /\ review_sessions' = [review_sessions EXCEPT
                                        ![token].highlight_ids = rest,
                                        ![token].current_index = 0]
             /\ response' = Resp(200, "card", rest[1], 1, Len(rest))

\* faulty variant: the entry of a completed session stays in the store
Advance_KeepEntry(token, rows) ==
    LET e == review_sessions[token]
        current_index == e.current_index + 1
    IN  /\ review_sessions' = [review_sessions EXCEPT
                                  ![token].current_index = current_index]
        /\ IF current_index >= Len(e.highlight_ids)
           THEN /\ db_sessions' = IF token \in DOMAIN rows
                                  THEN [rows EXCEPT ![token].completed_at = now,
                                                    ![token].is_completed = TRUE]
                                  ELSE rows
                /\ response' = Resp(200, "complete", None, 0, 0)
           ELSE /\ db_sessions' = rows
                /\ response' = Resp(200, "card", e.highlight_ids[current_index + 1],
                                    current_index + 1, Len(e.highlight_ids))

\* faulty variant: completing a session empties the whole store
Advance_DropAll(token, rows) ==
    LET e == review_sessions[token]
        current_index == e.current_index + 1
    IN  IF current_index >= Len(e.highlight_ids)
        THEN /\ db_sessions' = IF token \in DOMAIN rows
                               THEN [rows EXCEPT ![token].completed_at = now,
                                                 ![token].is_completed = TRUE]
                               ELSE rows
             /\ review_sessions' = << >>
             /\ response' = Resp(200, "complete", None, 0, 0)
        ELSE /\ db_sessions' = rows
             /\ review_sessions' = [review_sessions EXCEPT
                                        ![token].current_index = current_index]
             /\ response' = Resp(200, "card", e.highlight_ids[current_index + 1],
                                 current_index + 1, Len(e.highlight_ids))

\* the cursor step shared by ui_review_next and discard_highlight_html:
\* current_index += 1, then completion or the next card
Advance(token, rows) ==
    LET e == review_sessions[token]
        current_index == e.current_index + 1
    IN  IF current_index >= Len(e.highlight_ids)
        THEN /\ db_sessions' = IF token \in DOMAIN rows
                               THEN [rows EXCEPT ![token].completed_at = now,
                                                 ![token].is_completed = TRUE]
                               ELSE rows
             /\ review_sessions' = Drop(review_sessions, {token})
             /\ response' = Resp(200, "complete", None, 0, 0)
        ELSE /\ db_sessions' = rows
             /\ review_sessions' = [review_sessions EXCEPT
                                        ![token].current_index = current_index]
             /\ response' = Resp(200, "card", e.highlight_ids[current_index + 1],
                                 current_index + 1, Len(e.highlight_ids))

\* faulty variant: the review is stamped but not counted
mark_reviewed_KeepCount(h) == [h EXCEPT !.last_reviewed_at = now]

\* "Mark current highlight as reviewed"
mark_reviewed(h) ==
    [h EXCEPT !.last_reviewed_at = now, !.review_count = @ + 1]

\* faulty variant: a request without a live entry stamps the row as completed
ui_review_next_Restamp(current_id, review_session_id) ==
    LET rows == IF HasRow(review_session_id)
                THEN [db_sessions EXCEPT ![review_session_id].highlights_reviewed = @ + 1]
                ELSE db_sessions
    IN  /\ highlights' = IF Exists(current_id)
                         THEN [highlights EXCEPT
                                  ![current_id] = mark_reviewed(highlights[current_id])]
                         ELSE highlights
        /\ IF Live(review_session_id)
           THEN Advance(review_session_id, rows)
           ELSE /\ db_sessions' = IF HasRow(review_session_id)
                                  THEN [rows EXCEPT
                                           ![review_session_id].completed_at = now,
                                           ![review_session_id].is_completed = TRUE]
                                  ELSE rows
                /\ response' = Resp(200, "expired", None, 0, 0)
                /\ UNCHANGED review_sessions
        /\ UNCHANGED <<books, daily_review_count, now>>

\* POST /highlights/ui/review/next
ui_review_next(current_id, review_session_id) ==
    LET rows == IF HasRow(review_session_id)
                THEN [db_sessions EXCEPT ![review_session_id].highlights_reviewed = @ + 1]
                ELSE db_sessions
    IN  /\ highlights' = IF Exists(current_id)
                         THEN [highlights EXCEPT
                                  ![current_id] = mark_reviewed(highlights[current_id])]
                         ELSE highlights
        /\ IF Live(review_session_id)
           THEN Advance(review_session_id, rows)
           ELSE /\ db_sessions' = rows
                /\ response' = Resp(200, "expired", None, 0, 0)
                /\ UNCHANGED review_sessions
        /\ UNCHANGED <<books, daily_review_count, now>>

NotFound ==
    /\ response' = Resp(404, "error", None, 0, 0)
    /\ UNCHANGED <<highlights, books, daily_review_count, now, review_sessions,
                   db_sessions>>

Rejected ==
    /\ response' = Resp(400, "error", None, 0, 0)
    /\ UNCHANGED <<highlights, books, daily_review_count, now, review_sessions,
                   db_sessions>>

\* faulty variant: favoriting is never blocked
favorite_blocked_Never(h, favorite) == FALSE

\* "Block favoriting discarded highlights"
favorite_blocked(h, favorite) == favorite /\ h.is_discarded

\* POST /highlights/{id}/favorite/json
toggle_favorite(id, favorite) ==
    IF ~Exists(id) THEN NotFound
    ELSE IF favorite_blocked(highlights[id], favorite) THEN Rejected
    ELSE /\ highlights' = [highlights EXCEPT ![id].favorite = favorite,
                                             ![id].is_favorited = favorite]
         /\ response' = Resp(200, "json", id, 0, 0)
         /\ UNCHANGED <<books, daily_review_count, now, review_sessions, db_sessions>>

\* faulty variant: the favorite flags are left as they are
discard_highlight_KeepFavorite(id) ==
    IF ~Exists(id) THEN NotFound
    ELSE /\ highlights' = [highlights EXCEPT
                              ![id].status = "discarded", ![id].is_discarded = TRUE]
         /\ response' = Resp(200, "json", id, 0, 0)
         /\ UNCHANGED <<books, daily_review_count, now, review_sessions, db_sessions>>

\* POST /highlights/{id}/discard/json
discard_highlight(id) ==
    IF ~Exists(id) THEN NotFound
    ELSE /\ highlights' = [highlights EXCEPT
                              ![id].favorite = FALSE, ![id].is_favorited = FALSE,
                              ![id].status = "discarded", ![id].is_discarded = TRUE]
         /\ response' = Resp(200, "json", id, 0, 0)
         /\ UNCHANGED <<books, daily_review_count, now, review_sessions, db_sessions>>

\* faulty variant: the card shows the position after the cursor
review_card_Next(id, token) ==
    Resp(200, "card", id, review_sessions[token].current_index + 2,
         Len(review_sessions[token].highlight_ids))

\* the review card of a highlight with the position of the session's cursor
review_card(id, token) ==
    Resp(200, "card", id, review_sessions[token].current_index + 1,
         Len(review_sessions[token].highlight_ids))

\* POST /highlights/{id}/favorite
toggle_favorite_html(id, favorite, context, review_session_id) ==
    IF ~Exists(id) THEN NotFound
    ELSE IF favorite_blocked(highlights[id], favorite) THEN Rejected
    ELSE LET counted == context = "review" /\ favorite /\ HasRow(review_session_id)
         IN  /\ highlights' = [highlights EXCEPT ![id].favorite = favorite,
                                                 ![id].is_favorited = favorite]
             /\ db_sessions' = IF counted
                               THEN [db_sessions EXCEPT
                                        ![review_session_id].highlights_favorited = @ + 1]
                               ELSE db_sessions
             /\ response' =
                  IF context = "book"
                  THEN Resp(200, "sections", None, 0, 0)
                  ELSE IF context = "review" /\ Live(review_session_id)
                  THEN review_card(id, review_session_id)
                  ELSE Resp(200, "row", id, 0, 0)
             /\ UNCHANGED <<books, daily_review_count, now, review_sessions>>

\* faulty variant: discarding does not clear the favorite flags
toggle_discarded_KeepFavorite(h) ==
    LET new_state == ~h.is_discarded
    IN  [h EXCEPT !.is_discarded = new_state,
                  !.status = IF new_state THEN "discarded" ELSE "active"]

\* "Toggle the is_discarded field": the row discard_highlight_html writes back
toggle_discarded(h) ==
    LET new_state == ~h.is_discarded
    IN  [h EXCEPT !.favorite = IF new_state THEN FALSE ELSE @,
                  !.is_favorited = IF new_state THEN FALSE ELSE @,
                  !.is_discarded = new_state,
                  !.status = IF new_state THEN "discarded" ELSE "active"]

\* POST /highlights/{id}/discard
discard_highlight_html(id, context, review_session_id) ==
    IF ~Exists(id) THEN NotFound
    ELSE LET h == highlights[id]
             new_state == ~h.is_discarded
             counted == context = "review" /\ new_state /\ HasRow(review_session_id)
             rows == IF counted
                     THEN [db_sessions EXCEPT
                              ![review_session_id].highlights_discarded = @ + 1]
                     ELSE db_sessions
         IN  /\ highlights' = [highlights EXCEPT ![id] = toggle_discarded(h)]
             /\ IF context = "book"
                THEN /\ db_sessions' = rows
                     /\ response' = Resp(200, "sections", None, 0, 0)
                     /\ UNCHANGED review_sessions
                ELSE IF context = "review" /\ Live(review_session_id)
                THEN Advance(review_session_id, rows)
                ELSE /\ db_sessions' = rows
                     /\ response' = Resp(200, "row", id, 0, 0)
                     /\ UNCHANGED review_sessions
             /\ UNCHANGED <<books, daily_review_count, now>>

Texts == {"edited"}

\* POST /highlights/{id}/edit
save_highlight_edit(id, text, context, review_session_id) ==
    IF ~Exists(id) THEN NotFound
    ELSE /\ highlights' = [highlights EXCEPT ![id].text = text]
         /\ response' =
              IF context = "review" /\ Live(review_session_id)
              THEN review_card(id, review_session_id)
              ELSE Resp(200, "row", id, 0, 0)
         /\ UNCHANGED <<books, daily_review_count, now, review_sessions, db_sessions>>

\* ---- the book handlers -------------------------------------------------

\* a < b on floats: false when either side is NaN
FloatLt(a, b) == a /= NaN /\ b /= NaN /\ a < b

\* Python's max and min of two floats: the first argument is kept unless the
\* second compares greater (smaller)
py_max(a, b) == IF FloatLt(a, b) THEN b ELSE a
py_min(a, b) == IF FloatLt(b, a) THEN b ELSE a

\* faulty variant: the submitted weight is stored as it is
clamp_weight_Unclamped(review_weight) == review_weight

\* min(2.0, max(0.0, float(review_weight)))
clamp_weight(review_weight) == py_min(WeightMax, py_max(0, review_weight))

BookNotFound ==
    /\ response' = Resp(404, "error", None, 0, 0)
    /\ UNCHANGED <<highlights, books, daily_review_count, now, review_sessions,
                   db_sessions>>

BookStored(row_of) ==
    /\ books' = row_of
    /\ response' = Resp(200, "book", None, 0, 0)
    /\ UNCHANGED <<highlights, daily_review_count, now, review_sessions, db_sessions>>

\* POST /library/ui/book/{book_id}/edit
ui_book_update(book_id, title, review_weight) ==
    IF book_id \notin DOMAIN books THEN BookNotFound
    ELSE BookStored([books EXCEPT ![book_id].title = title,
                                  ![book_id].review_weight = clamp_weight(review_weight)])

\* f"/static/uploads/covers/{filename}"
CoverUrl == 1

\* POST /library/ui/book/{book_id}/cover/select; ok: the download succeeded
\* and the image passed the type and size checks
ui_book_cover_select(book_id, ok) ==
    IF book_id \notin DOMAIN books THEN BookNotFound
    ELSE IF ~ok
    THEN /\ response' = Resp(400, "error", None, 0, 0)
         /\ UNCHANGED <<highlights, books, daily_review_count, now,
                        review_sessions, db_sessions>>
    ELSE BookStored([books EXCEPT ![book_id].cover_image_url = CoverUrl])

\* POST /library/ui/book/{book_id}/cover/delete
ui_book_cover_delete(book_id) ==
    IF book_id \notin DOMAIN books THEN BookNotFound
    ELSE BookStored([books EXCEPT ![book_id].cover_image_url = None])

HasTag(tags, tag) == \E i \in 1..Len(tags) : tags[i] = tag

\* POST /library/ui/book/{book_id}/add-tag
ui_book_add_tag(book_id, new_tag) ==
    IF book_id \notin DOMAIN books THEN BookNotFound
    ELSE LET tags == books[book_id].document_tags
         IN  BookStored([books EXCEPT ![book_id].document_tags =
                            IF tags = NoTags THEN <<new_tag>>
                            ELSE IF HasTag(tags, new_tag) THEN tags
                            ELSE Append(tags, new_tag)])

\* POST /library/ui/book/{book_id}/remove-tag
ui_book_remove_tag(book_id, tag) ==
    IF book_id \notin DOMAIN books THEN BookNotFound
    ELSE LET tags == books[book_id].document_tags
         IN  BookStored([books EXCEPT ![book_id].document_tags =
                            SelectSeq(tags, LAMBDA t : t /= tag)])

\* get_or_create_book of the importer: the book of the title, created with
\* the default weight when there is none
get_or_create_book(title, document_tags) ==
    LET found == {b \in DOMAIN books : books[b].title = title}
        book_id == Cardinality(DOMAIN books) + 1
    IN  IF found = {}
        THEN BookStored(Put(books, book_id, NewBook(title, document_tags)))
        ELSE LET b == CHOOSE x \in found : \A y \in found : x <= y
             IN  IF document_tags /= NoTags /\ books[b].document_tags = NoTags
                 THEN BookStored([books EXCEPT ![b].document_tags = document_tags])
                 ELSE BookStored(books)

\* the clock moves on by a day, between two requests (the clock reads 0 at
\* the first request, and nothing reads it after the last one)
Tick ==
    /\ now < MaxNow
    /\ 0 < requests /\ requests < MaxRequests
    /\ now' = now + 1
    /\ UNCHANGED <<highlights, books, daily_review_count, review_sessions,
                   db_sessions, response, requests>>

Contexts == {"review", "book", "none"}

Discarded(h) == [h EXCEPT !.status = "discarded", !.is_discarded = TRUE]

\* the libraries the session machine starts from: a highlight of book 1 and
\* one without a book, undated, both active or both discarded
Libraries == { <<NewHighlight(1), NewHighlight(None)>>,
               <<Discarded(NewHighlight(1)), Discarded(NewHighlight(None))>> }

\* a request is served
Served == requests < MaxRequests /\ requests' = requests + 1

Ids == HighlightIds \cup {MissingId}
Cookies == Tokens \cup {None}

GetReview ==
    \E c \in Cookies, reset \in BOOLEAN : Served /\ ui_review(c, reset)

PostReviewNext ==
    \E id \in Ids, c \in Cookies : Served /\ ui_review_next(id, c)

PostFavoriteJson ==
    \E id \in Ids, fav \in BOOLEAN : Served /\ toggle_favorite(id, fav)

PostDiscardJson ==
    \E id \in Ids : Served /\ discard_highlight(id)

PostFavorite ==
    \E id \in Ids, fav \in BOOLEAN, ctx \in Contexts, c \in Cookies :
        Served /\ toggle_favorite_html(id, fav, ctx, c)

PostDiscard ==
    \E id \in Ids, ctx \in Contexts, c \in Cookies :
        Served /\ discard_highlight_html(id, ctx, c)

PostEdit ==
    \E id \in Ids, text \in Texts, ctx \in Contexts, c \in Cookies :
        Served /\ save_highlight_edit(id, text, ctx, c)

\* the weights a client submits: below the range, inside it, above it, NaN
SubmittedWeights == {-5, 5, 25, NaN}

\* the books that have highlights
UsedBooks == {highlights[id].book_id : id \in HighlightIds} \cap DOMAIN books

\* the form is submitted with the title the book has
PostBookUpdate ==
    \E b \in UsedBooks, w \in SubmittedWeights :
        Served /\ ui_book_update(b, books[b].title, w)

Init ==
    /\ highlights \in Libraries
    /\ books = [b \in BookIds |-> NewBook(TitleOf(b), NoTags)]
    /\ daily_review_count \in {1, DefaultCount}
    /\ now = 0
    /\ review_sessions = << >>
    /\ db_sessions = << >>
    /\ response = NoResponse
    /\ requests = 0

Next ==
    \/ GetReview
    \/ PostReviewNext
    \/ PostFavoriteJson
    \/ PostDiscardJson
    \/ PostFavorite
    \/ PostDiscard
    \/ PostEdit
    \/ PostBookUpdate
    \/ Tick

Spec == Init /\ [][Next]_vars

\* ---- the selector on its own: every library within the bounds -----------

\* undated (30 days by default), created yesterday (1 day), reviewed this
\* instant (0 days), discarded
SelProfiles(book) ==
    { NewHighlight(book),
      [NewHighlight(book) EXCEPT !.created_at = MaxNow - 1],
      [NewHighlight(book) EXCEPT !.last_reviewed_at = MaxNow, !.review_count = 1],
      [NewHighlight(book) EXCEPT !.status = "discarded", !.is_discarded = TRUE] }

BookRank(b) == IF b = None THEN 0 ELSE b

\* n is an unvalidated Optional[int]: absent, negative, 0, and both caps
SelCounts == {None, -2, 0, 1, 2, 4}

InitSel ==
    /\ highlights \in [1..MaxSelHighlights -> UNION {SelProfiles(b) : b \in BookIds \cup {None}}]
    \* rows grouped by book: the selector does not depend on the order of the rows
    /\ \A i \in 1..(MaxSelHighlights - 1) :
           BookRank(highlights[i].book_id) <= BookRank(highlights[i + 1].book_id)
    /\ \E w1 \in {0, WeightOne}, w2 \in {0, WeightMax} :
           books = [b \in BookIds |->
                       [NewBook(TitleOf(b), NoTags) EXCEPT
                           !.review_weight = IF b = 1 THEN w1 ELSE w2]]
    /\ daily_review_count = DefaultCount
    /\ now = MaxNow
    /\ review_sessions = << >>
    /\ db_sessions = << >>
    /\ response = NoResponse
    /\ requests = 0

\* one call per library: the selector keeps no state between calls
NextSel ==
    \E n \in SelCounts :
        response = NoResponse /\ requests' = requests + 1 /\ ReviewEndpoint(n)

SpecSel == InitSel /\ [][NextSel]_vars

\* ---- the book handlers on their own: storage starts without books -------

Titles == {"t1", "t2"}
TagNames == {"x"}
MissingBook == 0
BookKeys == DOMAIN books \cup {MissingBook}

InitBooks ==
    /\ highlights = << >>
    /\ books = << >>
    /\ daily_review_count = DefaultCount
    /\ now = 0
    /\ review_sessions = << >>
    /\ db_sessions = << >>
    /\ response = NoResponse
    /\ requests = 0

\* an import names a book: get_or_create_book runs
ImportBook ==
    \E title \in Titles, tags \in {NoTags} \cup {<<t>> : t \in TagNames} :
        /\ Cardinality(DOMAIN books) < MaxBooks
        /\ get_or_create_book(title, tags)
        /\ UNCHANGED requests

BookUpdate ==
    \E b \in BookKeys, title \in Titles, w \in SubmittedWeights :
        ui_book_update(b, title, w) /\ UNCHANGED requests

BookCoverSelect ==
    \E b \in BookKeys, ok \in BOOLEAN :
        ui_book_cover_select(b, ok) /\ UNCHANGED requests

BookCoverDelete ==
    \E b \in BookKeys : ui_book_cover_delete(b) /\ UNCHANGED requests

BookAddTag ==
    \E b \in BookKeys, t \in TagNames : ui_book_add_tag(b, t) /\ UNCHANGED requests

BookRemoveTag ==
    \E b \in BookKeys, t \in TagNames : ui_book_remove_tag(b, t) /\ UNCHANGED requests

NextBooks ==
    \/ ImportBook
    \/ BookUpdate
    \/ BookCoverSelect
    \/ BookCoverDelete
    \/ BookAddTag
    \/ BookRemoveTag

SpecBooks == InitBooks /\ [][NextBooks]_vars

\* ---- creating, importing and reading highlights -------------------------

\* POST /highlights/ : a row with the defaults of the model class
create_highlight(text) ==
    /\ highlights' = Append(highlights, [NewHighlight(None) EXCEPT !.text = text])
    /\ response' = Resp(200, "json", Len(highlights) + 1, 0, 0)
    /\ UNCHANGED <<books, daily_review_count, now, review_sessions, db_sessions>>

\* GET /highlights/{id} : the stored row
get_highlight(id) ==
    IF ~Exists(id) THEN NotFound
    ELSE /\ response' = [code |-> 200, kind |-> "highlight", item |-> id,
                         row |-> highlights[id]]
         /\ UNCHANGED <<highlights, books, daily_review_count, now,
                        review_sessions, db_sessions>>

\* faulty variant: the import leaves the favorite alias at its default
imported_highlight_NoAlias(text, is_favorited, is_discarded) ==
    [NewHighlight(None) EXCEPT
        !.text = text,
        !.status = IF is_discarded THEN "discarded" ELSE "active",
        !.is_favorited = is_favorited,
        !.is_discarded = is_discarded]

\* "Create highlight with appropriate boolean flags" (a row without a book)
imported_highlight(text, is_favorited, is_discarded) ==
    [NewHighlight(None) EXCEPT
        !.text = text,
        !.status = IF is_discarded THEN "discarded" ELSE "active",
        !.is_favorited = is_favorited,
        !.is_discarded = is_discarded,
        !.favorite = is_favorited]

\* POST /import/ui/readwise with a file of one row that names no book: a
\* row with the text of a stored book-less highlight is a duplicate
process_readwise_import(text, is_favorited, is_discarded) ==
    LET existing_highlight ==
            {id \in HighlightIds : /\ highlights[id].text = text
                                   /\ highlights[id].book_id = None}
    IN  /\ highlights' = IF existing_highlight /= {} THEN highlights
                         ELSE Append(highlights,
                                     imported_highlight(text, is_favorited,
                                                        is_discarded))
        /\ response' = Resp(200, "import", None,
                            IF existing_highlight /= {} THEN 0 ELSE 1, 1)
        /\ UNCHANGED <<books, daily_review_count, now, review_sessions, db_sessions>>

CreateTexts == {"text"}
ImportTexts == {"imported"}

InitFlags ==
    /\ highlights = << >>
    /\ books = << >>
    /\ daily_review_count = DefaultCount
    /\ now = 0
    /\ review_sessions = << >>
    /\ db_sessions = << >>
    /\ response = NoResponse
    /\ requests = 0

FlagCreate ==
    \E text \in CreateTexts :
        /\ Len(highlights) < MaxFlagHighlights
        /\ create_highlight(text) /\ UNCHANGED requests

FlagImport ==
    \E text \in ImportTexts, fav \in BOOLEAN, disc \in BOOLEAN :
        /\ Len(highlights) < MaxFlagHighlights
        /\ process_readwise_import(text, fav, disc) /\ UNCHANGED requests

FlagRead ==
    \E id \in Ids : get_highlight(id) /\ UNCHANGED requests

FlagFavoriteJson ==
    \E id \in Ids, fav \in BOOLEAN : toggle_favorite(id, fav) /\ UNCHANGED requests

FlagDiscardJson ==
    \E id \in Ids : discard_highlight(id) /\ UNCHANGED requests

FlagFavorite ==
    \E id \in Ids, fav \in BOOLEAN, ctx \in Contexts :
        toggle_favorite_html(id, fav, ctx, None) /\ UNCHANGED requests

FlagDiscard ==
    \E id \in Ids, ctx \in Contexts :
        discard_highlight_html(id, ctx, None) /\ UNCHANGED requests

FlagEdit ==
    \E id \in Ids, text \in Texts, ctx \in Contexts :
        save_highlight_edit(id, text, ctx, None) /\ UNCHANGED requests

NextFlags ==
    \/ FlagCreate
    \/ FlagImport
    \/ FlagRead
    \/ FlagFavoriteJson
    \/ FlagDiscardJson
    \/ FlagFavorite
    \/ FlagDiscard
    \/ FlagEdit

SpecFlags == InitFlags /\ [][NextFlags]_vars

\* ---- the streaks of the dashboard ---------------------------------------

\* sorted(dates): ascending, duplicates kept
RECURSIVE sorted(_)
sorted(dates) ==
    IF dates = <<>> THEN <<>>
    ELSE LET rest == sorted(Tail(dates))
             x == Head(dates)
             k == Cardinality({i \in 1..Len(rest) : rest[i] < x})
         IN  SubSeq(rest, 1, k) \o <<x>> \o SubSeq(rest, k + 1, Len(rest))

\* sorted(dates, reverse=True)
sorted_reverse(dates) ==
    LET asc == sorted(dates)
    IN  [i \in 1..Len(asc) |-> asc[Len(asc) + 1 - i]]

\* select(ReviewSession).where(is_completed == True), as session dates
completed_dates ==
    LET completed_sessions == SelectSeq(db_sessions, LAMBDA rs : rs.is_completed)
    IN  [i \in 1..Len(completed_sessions) |-> completed_sessions[i].session_date]

\* faulty variant: a date that is not the expected one ends the streak
RECURSIVE current_loop_StopsOnRepeat(_, _, _, _)
current_loop_StopsOnRepeat(sorted_dates, i, current_streak, check_date) ==
    IF i > Len(sorted_dates) THEN current_streak
    ELSE IF sorted_dates[i] = check_date
    THEN current_loop_StopsOnRepeat(sorted_dates, i + 1, current_streak + 1,
                                    check_date - 1)
    ELSE current_streak

\* "for i in range(1, len(sorted_dates))" of the current streak
RECURSIVE current_loop(_, _, _, _)
current_loop(sorted_dates, i, current_streak, check_date) ==
    IF i > Len(sorted_dates) THEN current_streak
    ELSE IF sorted_dates[i] = check_date
    THEN current_loop(sorted_dates, i + 1, current_streak + 1, check_date - 1)
    ELSE IF sorted_dates[i] < check_date
    THEN current_streak                      \* "Gap found, break"
    ELSE current_loop(sorted_dates, i + 1, current_streak, check_date)

current_streak_of(dates, today_date) ==
    IF dates = <<>> THEN 0
    ELSE LET sorted_dates == sorted_reverse(dates)
             yesterday == today_date - 1
         IN  IF sorted_dates[1] >= yesterday
             THEN current_loop(sorted_dates, 2, 1, sorted_dates[1] - 1)
             ELSE 0

\* "for i in range(1, len(all_dates_sorted))" of the longest streak
RECURSIVE longest_loop(_, _, _, _)
longest_loop(all_dates_sorted, i, temp_streak, longest_streak) ==
    IF i > Len(all_dates_sorted) THEN longest_streak
    ELSE LET days_diff == all_dates_sorted[i] - all_dates_sorted[i - 1]
         IN  IF days_diff = 1
             THEN longest_loop(all_dates_sorted, i + 1, temp_streak + 1,
                               Max(longest_streak, temp_streak + 1))
             ELSE longest_loop(all_dates_sorted, i + 1, 1, longest_streak)

longest_streak_of(dates) ==
    IF dates = <<>> THEN 0
    ELSE longest_loop(sorted(dates), 2, 1, 1)

\* GET /dashboard/ui : the streaks it renders (the clock counts days)
ui_dashboard ==
    /\ response' = [code |-> 200, kind |-> "dashboard",
                    current_streak |-> current_streak_of(completed_dates, now),
                    longest_streak |-> longest_streak_of(completed_dates)]
    /\ UNCHANGED <<highlights, books, daily_review_count, now, review_sessions,
                   db_sessions>>

\* the durable rows a dashboard can find: up to MaxStreakSessions sessions
\* started on the days 0..MaxDay, completed on their day or left open
SessionRows ==
    {[NewRow(DefaultCount) EXCEPT
         !.started_at = d, !.session_date = d,
         !.completed_at = IF done THEN d ELSE None, !.is_completed = done]
     : d \in 0..MaxDay, done \in BOOLEAN}

InitStreak ==
    /\ now \in MaxDay..(MaxDay + 2)
    /\ \E k \in 0..MaxStreakSessions : db_sessions \in [1..k -> SessionRows]
    /\ highlights = << >>
    /\ books = << >>
    /\ daily_review_count = DefaultCount
    /\ review_sessions = << >>
    /\ response = NoResponse
    /\ requests = 0

Dashboard ==
    /\ response = NoResponse
    /\ requests' = requests + 1
    /\ ui_dashboard

NextStreak == Dashboard

SpecStreak == InitStreak /\ [][NextStreak]_vars

\* ---- properties of the selector (checked under SpecSel) -----------------

Groups == BookIds \cup {None}

Items == response.items

\* the highlights a selection may draw from, stated from the rows themselves
ElapsedDays(h) ==
    IF h.last_reviewed_at /= None THEN now - h.last_reviewed_at
    ELSE IF h.created_at /= None THEN now - h.created_at
    ELSE DefaultDays

WeightOf(h) ==
    IF h.book_id = None THEN WeightOne ELSE books[h.book_id].review_weight

Positive ==
    {id \in HighlightIds :
        /\ highlights[id].status = "active" /\ ~highlights[id].is_discarded
        /\ WeightOf(highlights[id]) > 0
        /\ ElapsedDays(highlights[id]) > 0}

Contribution(b) ==
    Cardinality({i \in 1..Len(Items) : highlights[Items[i]].book_id = b})

Supply(b) == Cardinality({id \in Positive : highlights[id].book_id = b})

CapOf(n) == IF n >= 4 THEN 2 ELSE 1

\* the sum over the groups of min(cap, supply of the group)
CappedSupply(n) ==
    LET RECURSIVE S(_)
        S(gs) == IF gs = {} THEN 0
                 ELSE LET g == CHOOSE x \in gs : TRUE
                      IN  Min(CapOf(n), Supply(g)) + S(gs \ {g})
    IN  S(Groups)

Selected == response.kind = "list" /\ response.n >= 1

\* C1: for every library and every N >= 1 the selector returns exactly
\* min(N, P) highlights, P the number of positive-score candidates, and no
\* highlight twice, also when all candidates are of one book or of no book.
C1_ExactCount ==
    Selected =>
        /\ Len(Items) = Min(response.n, Cardinality(Positive))
        /\ \A i, j \in 1..Len(Items) : i /= j => Items[i] /= Items[j]

\* a selection of 4 highlights that are all of one group (the cap was relaxed)
C1_Witness ==
    /\ Selected /\ response.n = 4 /\ Len(Items) = 4
    /\ \E b \in Groups : Contribution(b) = 4

C3_OnlyEligible ==
    response.kind = "list" =>
        /\ \A i \in 1..Len(Items) : Items[i] \in Positive
        /\ (\A id \in HighlightIds :
                highlights[id].book_id /= None /\ WeightOf(highlights[id]) = 0)
               => Items = <<>>

\* a short result: an active highlight of a weight-0 book was passed over
C3_Witness ==
    /\ Selected /\ Items /= <<>> /\ Len(Items) < response.n
    /\ \E id \in HighlightIds :
           /\ highlights[id].status = "active" /\ ~highlights[id].is_discarded
           /\ highlights[id].book_id /= None /\ WeightOf(highlights[id]) = 0
           /\ ElapsedDays(highlights[id]) > 0

\* the number of highlights of group b among the first i of the list
PrefixCount(b, i) ==
    Cardinality({j \in 1..i : highlights[Items[j]].book_id = b})

\* C30: the highlights without a book form one group of the diversity cap:
\* a book-less highlight is selected after cap (2 if N >= 4, else 1)
\* book-less highlights only in the relaxed phase, i.e. when the list
\* before it already holds, of every book with candidates and of the
\* book-less group, min(cap, candidates of the group) highlights.
C30_BooklessOneGroup ==
    Selected =>
        \A i \in 1..Len(Items) :
            (/\ highlights[Items[i]].book_id = None
             /\ PrefixCount(None, i - 1) >= CapOf(response.n)) =>
                \A g \in Groups :
                    PrefixCount(g, i - 1) >= Min(CapOf(response.n), Supply(g))

\* of three book-less candidates the third was taken only in the relaxed
\* phase, after the one candidate of a book
C30_Witness ==
    /\ Selected /\ response.n = 4 /\ Len(Items) = 4
    /\ Supply(None) = 3 /\ Contribution(None) = 3
    /\ \E b \in BookIds : Supply(b) = 1 /\ PrefixCount(b, 3) = 1

\* ---- properties of the session machine (checked under Spec) -------------

\* the item under the cursor of a live session
CurrentItem(token) ==
    review_sessions[token].highlight_ids[review_sessions[token].current_index + 1]

HasCurrent(token) ==
    /\ Live(token)
    /\ review_sessions[token].current_index < Len(review_sessions[token].highlight_ids)

EmptyPage(r) ==
    r.code = 200 /\ r.kind = "page" /\ r.item = None /\ r.current = 0 /\ r.total = 0

\* C4: when no highlight is eligible, get-current builds an empty queue and
\* returns item none, position 0, total 0 without an error, and returns the
\* same on every later get-current with the same non-expired token.
C4_EmptyPool ==
    [][\A c \in Cookies, reset \in BOOLEAN :
          /\ (should_create_new(c, reset) /\ Positive = {} /\ ui_review(c, reset))
                 => /\ EmptyPage(response')
                    /\ review_sessions'[response'.token].highlight_ids = <<>>
          /\ (/\ ~should_create_new(c, reset)
              /\ review_sessions[c].highlight_ids = <<>>
              /\ ui_review(c, reset))
                 => EmptyPage(response') /\ response'.token = c]_vars

\* the empty page was returned for a resumed session with an empty queue
C4_Witness ==
    /\ EmptyPage(response) /\ Positive = {}
    /\ Live(response.token)
    /\ review_sessions[response.token].highlight_ids = <<>>
    /\ response.token < Cardinality(DOMAIN db_sessions)

\* C5: get-current on a live, non-expired session without reset changes
\* neither the in-memory store nor a durable row nor a highlight, and two
\* consecutive calls return the same highlight, position and total.
C5_Idempotent ==
    [][\A c \in Tokens :
          (~should_create_new(c, FALSE) /\ ui_review(c, FALSE)) =>
             /\ UNCHANGED <<review_sessions, db_sessions, highlights>>
             /\ response'.token = c
             /\ (response.kind = "page" /\ response.token = c)
                    => response' = response]_vars

\* a session was resumed after an advance: the page shows its second item
C5_Witness ==
    /\ response.kind = "page" /\ Live(response.token)
    /\ review_sessions[response.token].current_index = 1
    /\ response.current = 2
    /\ response.item = CurrentItem(response.token)

\* C6: in a session with a queue of L >= 1 highlights, a mark-reviewed
\* advance returns the next item and no completion while the cursor stays
\* below L, and returns completion when the cursor reaches L; after L such
\* advances the row has highlights_reviewed = L and is_completed.
C6_RoundTrip ==
    [][\A id \in Ids, c \in Tokens :
          (HasCurrent(c) /\ ui_review_next(id, c)) =>
             LET e == review_sessions[c]
                 L == Len(e.highlight_ids)
                 i == e.current_index
             IN  /\ i + 1 < L =>
                       /\ response'.kind = "card"
                       /\ response'.item = e.highlight_ids[i + 2]
                       /\ response'.current = i + 2 /\ response'.total = L
                       /\ ~db_sessions'[c].is_completed
                 /\ i + 1 = L =>
                       /\ response'.kind = "complete"
                       /\ db_sessions'[c].is_completed
                       /\ db_sessions[c].highlights_reviewed = i
                              => db_sessions'[c].highlights_reviewed = L]_vars

\* a session of two highlights completed by two mark-reviewed advances
C6_Witness ==
    /\ response.kind = "complete"
    /\ \E c \in Tokens :
          /\ db_sessions[c].is_completed
          /\ db_sessions[c].highlights_reviewed = 2
          /\ db_sessions[c].highlights_discarded = 0
          /\ \A id \in HighlightIds : highlights[id].review_count = 1

\* C7: favoriting a discarded highlight is rejected by both favorite
\* endpoints, in and outside a review session, and the rejected call changes
\* no highlight, no cursor and no session counter.
C7_FavoriteRejected ==
    [][\A id \in HighlightIds :
          highlights[id].is_discarded =>
             /\ toggle_favorite(id, TRUE) =>
                   /\ response'.code = 400
                   /\ UNCHANGED <<highlights, review_sessions, db_sessions>>
             /\ \A ctx \in Contexts, c \in Cookies :
                   toggle_favorite_html(id, TRUE, ctx, c) =>
                      /\ response'.code = 400
                      /\ UNCHANGED <<highlights, review_sessions, db_sessions>>]_vars

\* a favorite was rejected for the discarded current item of a live session
C7_Witness ==
    /\ response.code = 400
    /\ \E c \in Tokens : HasCurrent(c) /\ highlights[CurrentItem(c)].is_discarded

\* C8 as stated: a discard of the current item in review always leaves it
\* discarded and not favorited and adds one to highlights_discarded,
\* whatever its state was before.
C8_AlwaysDiscards ==
    [][\A c \in Tokens :
          (HasCurrent(c) /\ discard_highlight_html(CurrentItem(c), "review", c)) =>
             LET id == CurrentItem(c)
             IN  /\ highlights'[id].is_discarded
                 /\ highlights'[id].status = "discarded"
                 /\ ~highlights'[id].favorite /\ ~highlights'[id].is_favorited
                 /\ db_sessions'[c].highlights_discarded
                       = db_sessions[c].highlights_discarded + 1]_vars

\* C8 amended: the endpoint toggles.  On a current item that is not
\* discarded it leaves the item discarded and not favorited and adds one to
\* highlights_discarded; on one that is already discarded it restores the
\* item to active and leaves the counter unchanged.
C8_DiscardToggles ==
    [][\A c \in Tokens :
          (HasCurrent(c) /\ discard_highlight_html(CurrentItem(c), "review", c)) =>
             LET id == CurrentItem(c)
             IN  IF ~highlights[id].is_discarded
                 THEN /\ highlights'[id].is_discarded
                      /\ highlights'[id].status = "discarded"
                      /\ ~highlights'[id].favorite /\ ~highlights'[id].is_favorited
                      /\ db_sessions'[c].highlights_discarded
                            = db_sessions[c].highlights_discarded + 1
                 ELSE /\ ~highlights'[id].is_discarded
                      /\ highlights'[id].status = "active"
                      /\ db_sessions'[c].highlights_discarded
                            = db_sessions[c].highlights_discarded]_vars

\* a favorited current item was discarded in review and counted once
C8_Witness ==
    /\ response.kind \in {"card", "complete"}
    /\ \E c \in Tokens, id \in HighlightIds :
          /\ db_sessions[c].highlights_discarded = 1
          /\ db_sessions[c].highlights_favorited = 1
          /\ highlights[id].is_discarded /\ ~highlights[id].favorite

C10_CountsNewFavorites ==
    [][\A id \in HighlightIds, fav \in BOOLEAN, c \in Tokens :
          toggle_favorite_html(id, fav, "review", c) =>
             \/ db_sessions'[c].highlights_favorited
                   = db_sessions[c].highlights_favorited
             \/ ~highlights[id].favorite /\ highlights'[id].favorite]_vars

\* C11: the queue of a session is fixed when it is built.  A new entry starts
\* at cursor 0; while the entry lives no step changes its queue, and a step
\* moves its cursor by at most one; a resuming get-current returns the item
\* under the cursor with position cursor + 1 and total L; an advance (mark
\* reviewed, or discard in review) that moves the cursor to k < L returns
\* q[k] with position k + 1 and total L.
C11_FixedOrder ==
    [][/\ \A c \in DOMAIN review_sessions' \ DOMAIN review_sessions :
              review_sessions'[c].current_index = 0
       /\ \A c \in Tokens :
              /\ (Live(c) /\ Live(c)') =>
                    /\ review_sessions'[c].highlight_ids
                          = review_sessions[c].highlight_ids
                    /\ review_sessions'[c].current_index
                          \in {review_sessions[c].current_index,
                               review_sessions[c].current_index + 1}
              /\ (HasCurrent(c) /\ ~should_create_new(c, FALSE)
                     /\ ui_review(c, FALSE)) =>
                    /\ response'.item = CurrentItem(c)
                    /\ response'.current = review_sessions[c].current_index + 1
                    /\ response'.total = Len(review_sessions[c].highlight_ids)
              /\ (/\ HasCurrent(c)
                  /\ review_sessions[c].current_index + 1
                        < Len(review_sessions[c].highlight_ids)
                  /\ \/ \E id \in Ids : ui_review_next(id, c)
                     \/ \E id \in HighlightIds :
                           discard_highlight_html(id, "review", c)) =>
                    LET q == review_sessions[c].highlight_ids
                        k == review_sessions[c].current_index + 1
                    IN  /\ review_sessions'[c].current_index = k
                        /\ response'.kind = "card"
                        /\ response'.item = q[k + 1]
                        /\ response'.current = k + 1
                        /\ response'.total = Len(q)]_vars

\* the second item of a queue was presented after the weight of its book
\* was set to 0 in the middle of the session
C11_Witness ==
    /\ response.kind = "card" /\ response.current = 2
    /\ \E c \in Tokens :
          /\ HasCurrent(c) /\ review_sessions[c].current_index = 1
          /\ response.item = CurrentItem(c)
          /\ highlights[CurrentItem(c)].book_id /= None
          /\ books[highlights[CurrentItem(c)].book_id].review_weight = 0

\* C12: completed_at of a durable row is written only in a step in which an
\* advance takes the cursor of the live entry of its token to the queue
\* length (cursor + 1 >= length: for an empty queue, its first advance) and
\* deletes the entry; it is written when it was unset, and a set value is
\* never changed; is_completed never goes back to false; in every state
\* is_completed holds exactly when completed_at is set.
C12_CompletedOnce ==
    [][/\ \A c \in DOMAIN db_sessions' :
              db_sessions'[c].is_completed <=> db_sessions'[c].completed_at /= None
       /\ \A c \in Tokens :
              /\ db_sessions[c].is_completed => db_sessions'[c].is_completed
              /\ db_sessions'[c].completed_at /= db_sessions[c].completed_at =>
                    /\ db_sessions[c].completed_at = None
                    /\ db_sessions'[c].completed_at = now
                    /\ Live(c) /\ ~Live(c)'
                    /\ review_sessions[c].current_index + 1
                          >= Len(review_sessions[c].highlight_ids)]_vars

\* a request came with the token of a session completed the day before, and
\* the row still has the timestamp of its completion
C12_Witness ==
    /\ response.kind = "expired"
    /\ \E c \in Tokens :
          /\ db_sessions[c].is_completed
          /\ db_sessions[c].completed_at /= None
          /\ db_sessions[c].completed_at < now
          /\ db_sessions[c].highlights_reviewed = 2

\* C13: an advance (mark reviewed, or discard in review) that carries the
\* token of an entry older than 24 hours treats the session as not found: it
\* leaves the in-memory store as it is, returns no card of the queue and no
\* completion, and does not complete the durable row.
C13_ExpiredNotAdvanced ==
    [][\A c \in Tokens :
          (/\ Live(c) /\ Expired(review_sessions[c].timestamp, now)
           /\ \/ \E id \in Ids : ui_review_next(id, c)
              \/ \E id \in HighlightIds :
                    discard_highlight_html(id, "review", c)) =>
             /\ UNCHANGED review_sessions
             /\ response'.kind \notin {"card", "complete"}
             /\ db_sessions'[c].is_completed = db_sessions[c].is_completed]_vars

\* C15: get-current with no token, with a token that has no in-memory entry,
\* with the token of an entry older than 24 hours, or with reset answers 200
\* and starts a session: the token is new, its entry has cursor 0 and a
\* queue of min(n, P) distinct eligible highlights, one durable row is added
\* for it with the three counters 0 and is_completed false, and every row
\* that existed keeps its value.
C15_StartsFresh ==
    [][(/\ response'.kind = "page"     \* all ui_review returns
        /\ \E c \in Cookies, reset \in BOOLEAN :
              should_create_new(c, reset) /\ ui_review(c, reset)) =>
             LET t == response'.token
             IN  /\ response'.code = 200
                 /\ t /= None
                 /\ t \notin DOMAIN db_sessions
                 /\ t \notin DOMAIN review_sessions
                 /\ t \in DOMAIN review_sessions'
                 /\ review_sessions'[t].current_index = 0
                 /\ LET q == review_sessions'[t].highlight_ids
                    IN  /\ Len(q) = Min(daily_review_count, Cardinality(Positive))
                        /\ \A i \in 1..Len(q) : q[i] \in Positive
                        /\ \A i, j \in 1..Len(q) : i /= j => q[i] /= q[j]
                 /\ DOMAIN db_sessions' = DOMAIN db_sessions \cup {t}
                 /\ db_sessions'[t].highlights_reviewed = 0
                 /\ db_sessions'[t].highlights_discarded = 0
                 /\ db_sessions'[t].highlights_favorited = 0
                 /\ ~db_sessions'[t].is_completed
                 /\ \A x \in DOMAIN db_sessions : db_sessions'[x] = db_sessions[x]]_vars

\* a session was started after the entry of an earlier one, advanced once
\* and never completed, had become older than 24 hours
C15_Witness ==
    /\ response.kind = "page" /\ Live(response.token)
    /\ review_sessions[response.token].timestamp = now
    /\ \E old \in Tokens :
          /\ old /= response.token /\ ~Live(old)
          /\ ~db_sessions[old].is_completed
          /\ db_sessions[old].highlights_reviewed = 1
          /\ Expired(db_sessions[old].started_at, now)

\* C16: the timestamp of an in-memory entry is its last-touched time: an
\* advance (mark reviewed, or discard in review) that leaves the entry in
\* the store sets its timestamp to the time of the advance.
C16_AdvanceRefreshes ==
    [][\A c \in Tokens :
          (/\ Live(c) /\ Live(c)'
           /\ review_sessions'[c].current_index
                 = review_sessions[c].current_index + 1) =>
             review_sessions'[c].timestamp = now]_vars

\* an entry older than the 24-hour threshold at the current time
Stale(e) == (now - e.timestamp) * DaySeconds > IdleSeconds

\* C17: a step that creates a session (it adds a durable row) leaves in the
\* in-memory store the new entry, and of the entries that were there exactly
\* those not older than 24 hours, each with its value unchanged; an entry
\* leaves the store only in such a step, being older than 24 hours, or in
\* the step of an advance that completes its session.
C17_SweepOnCreate ==
    [][/\ DOMAIN db_sessions' /= DOMAIN db_sessions =>
             /\ response'.token \in DOMAIN review_sessions' \ DOMAIN review_sessions
             /\ \A sid \in DOMAIN review_sessions :
                   IF Stale(review_sessions[sid])
                   THEN sid \notin DOMAIN review_sessions'
                   ELSE /\ sid \in DOMAIN review_sessions'
                        /\ review_sessions'[sid] = review_sessions[sid]
             /\ \A sid \in DOMAIN review_sessions' :
                   (now - review_sessions'[sid].timestamp) * DaySeconds
                       <= IdleSeconds
       /\ \A sid \in DOMAIN review_sessions \ DOMAIN review_sessions' :
             \/ /\ DOMAIN db_sessions' /= DOMAIN db_sessions
                /\ Stale(review_sessions[sid])
             \/ /\ response'.kind = "complete"
                /\ review_sessions[sid].current_index + 1
                      >= Len(review_sessions[sid].highlight_ids)
                /\ db_sessions'[sid].is_completed]_vars

\* a third session was created: the entry of the first, older than 24
\* hours, is gone, the entry of the second, one day old, is kept
C17_Witness ==
    /\ response.kind = "page" /\ Live(response.token)
    /\ review_sessions[response.token].timestamp = now
    /\ \E a, b \in Tokens :
          /\ ~Live(a) /\ ~db_sessions[a].is_completed
          /\ Expired(db_sessions[a].started_at, now)
          /\ Live(b) /\ b /= response.token
          /\ review_sessions[b].timestamp < now

\* C18: an advance (mark reviewed, or discard in review) that moves the
\* cursor to the queue length sets is_completed and completed_at on the
\* durable row and deletes the in-memory entry in the same step; after every
\* step no token has both an in-memory entry and a completed row; a
\* get-current with the token of a completed row starts a session under
\* another, new token.
C18_CompletionDeletes ==
    [][/\ \A c \in DOMAIN review_sessions' : ~db_sessions'[c].is_completed
       /\ \A c \in Tokens :
             /\ (/\ HasCurrent(c)
                 /\ review_sessions[c].current_index + 1
                       = Len(review_sessions[c].highlight_ids)
                 /\ \/ \E id \in Ids : ui_review_next(id, c)
                    \/ \E id \in HighlightIds :
                          discard_highlight_html(id, "review", c)) =>
                   /\ db_sessions'[c].is_completed
                   /\ db_sessions'[c].completed_at = now
                   /\ ~Live(c)'
                   /\ response'.kind = "complete"
             /\ (/\ db_sessions[c].is_completed
                 /\ response'.kind = "page"
                 /\ \E reset \in BOOLEAN : ui_review(c, reset)) =>
                   /\ response'.token /= c
                   /\ response'.token \notin Tokens
                   /\ response'.token \in DOMAIN review_sessions'
                   /\ db_sessions'[c] = db_sessions[c]]_vars

\* a session was completed by a discard in review, and a get-current
\* afterwards started a session under another token
C18_Witness ==
    /\ response.kind = "page" /\ Live(response.token)
    /\ \E c \in Tokens :
          /\ c /= response.token
          /\ db_sessions[c].is_completed /\ ~Live(c)
          /\ db_sessions[c].highlights_discarded = 1
          /\ db_sessions[c].completed_at = db_sessions[response.token].started_at

\* C19: an advance that names a highlight id not in storage is aborted
\* without side effects, whatever the action (reviewed, discarded,
\* favorited): the in-memory store, the durable rows and the highlights keep
\* their values.
C19_MissingIdAborts ==
    [][\A c \in Cookies :
          (\/ ui_review_next(MissingId, c)
           \/ discard_highlight_html(MissingId, "review", c)
           \/ \E fav \in BOOLEAN : toggle_favorite_html(MissingId, fav, "review", c))
             => UNCHANGED <<review_sessions, db_sessions, highlights>>]_vars

\* C20: starting from highlights that are not both discarded and favorited,
\* no highlight is both in any state reached by favorite, unfavorite,
\* discard and restore requests (JSON and HTML, in and outside review).
C20_NeverBoth ==
    \A id \in HighlightIds :
        ~ /\ highlights[id].is_discarded \/ highlights[id].status = "discarded"
          /\ highlights[id].favorite \/ highlights[id].is_favorited

\* a highlight favorited during a review session was discarded through the
\* JSON endpoint and is no longer a favorite
C20_Witness ==
    /\ response.kind = "json"
    /\ \E id \in HighlightIds, c \in Tokens :
          /\ response.item = id
          /\ highlights[id].is_discarded /\ ~highlights[id].favorite
          /\ ~highlights[id].is_favorited
          /\ db_sessions[c].highlights_favorited = 1
          /\ \A other \in HighlightIds \ {id} : ~highlights[other].favorite

\* C21: a mark-reviewed advance on a highlight in storage sets its
\* last_reviewed_at to the current time and adds one to its review_count,
\* adds one to highlights_reviewed of the row of its token, and leaves the
\* other two counters of the row, every other field of the highlight and
\* every other highlight as they were; no step of any operation decreases a
\* review_count.
C21_MarkReviewed ==
    [][/\ \A id \in HighlightIds, c \in Tokens :
              ui_review_next(id, c) =>
                 /\ highlights'[id] =
                        [highlights[id] EXCEPT
                            !.last_reviewed_at = now,
                            !.review_count = highlights[id].review_count + 1]
                 /\ \A other \in HighlightIds \ {id} :
                        highlights'[other] = highlights[other]
                 /\ db_sessions'[c].highlights_reviewed
                        = db_sessions[c].highlights_reviewed + 1
                 /\ db_sessions'[c].highlights_discarded
                        = db_sessions[c].highlights_discarded
                 /\ db_sessions'[c].highlights_favorited
                        = db_sessions[c].highlights_favorited
       /\ \A id \in HighlightIds :
              highlights'[id].review_count >= highlights[id].review_count]_vars

\* a highlight favorited during its session was marked reviewed at a later
\* time: it is still a favorite, was reviewed once, and the row counts one
\* favorite and one review
C21_Witness ==
    /\ response.kind \in {"card", "complete"}
    /\ now > 0
    /\ \E id \in HighlightIds, c \in Tokens :
          /\ highlights[id].favorite /\ highlights[id].is_favorited
          /\ ~highlights[id].is_discarded
          /\ highlights[id].review_count = 1
          /\ highlights[id].last_reviewed_at = now
          /\ db_sessions[c].highlights_reviewed = 1
          /\ db_sessions[c].highlights_favorited = 1
          /\ db_sessions[c].highlights_discarded = 0

\* the session state of a token: its in-memory entry and its durable row
SessionState(c) ==
    [entry |-> IF Live(c) THEN <<review_sessions[c]>> ELSE << >>,
     row   |-> IF HasRow(c) THEN <<db_sessions[c]>> ELSE << >>]

\* the session state of c after the cursor step on row value row
AfterAdvance(c, row) ==
    IF ~Live(c) THEN [entry |-> << >>, row |-> row]
    ELSE LET e == review_sessions[c]
         IN  IF e.current_index + 1 >= Len(e.highlight_ids)
             THEN [entry |-> << >>,
                   row |-> IF row = << >> THEN row
                           ELSE <<[row[1] EXCEPT !.completed_at = now,
                                                 !.is_completed = TRUE]>>]
             ELSE [entry |-> <<[e EXCEPT !.current_index = @ + 1]>>, row |-> row]

\* the session state of c after a mark-reviewed advance sent from this state
AfterNext(c) ==
    AfterAdvance(c, IF HasRow(c)
                    THEN <<[db_sessions[c] EXCEPT !.highlights_reviewed = @ + 1]>>
                    ELSE << >>)

\* the session state of c after a discard in review of id sent from this state
AfterDiscard(id, c) ==
    IF ~Exists(id) THEN SessionState(c)
    ELSE AfterAdvance(c, IF ~HasRow(c) THEN << >>
                         ELSE IF highlights[id].is_discarded THEN <<db_sessions[c]>>
                         ELSE <<[db_sessions[c] EXCEPT
                                    !.highlights_discarded = @ + 1]>>)

\* the step is a resuming get-current of token a
Resumes(a) ==
    /\ response'.kind = "page"
    /\ ~should_create_new(a, FALSE) /\ ui_review(a, FALSE)

\* AfterNext and AfterDiscard are what the handlers do to the session of
\* their token
EffectsAsComputed ==
    \A c \in Tokens :
        /\ \A id \in Ids : ui_review_next(id, c) => SessionState(c)' = AfterNext(c)
        /\ \A id \in HighlightIds :
               discard_highlight_html(id, "review", c) =>
                  SessionState(c)' = AfterDiscard(id, c)

\* C22 as stated: an advance (mark reviewed, or discard in review) or a
\* resuming get-current on token a leaves the entry and the row of every
\* other token b unchanged, and leaves unchanged what any advance on b
\* would do to the session of b: the two operations give the same final
\* session states in either order.
C22_OrderIndependent ==
    [][/\ EffectsAsComputed
       /\ \A a \in Tokens :
             (\/ \E id \in Ids : ui_review_next(id, a)
              \/ \E id \in HighlightIds : discard_highlight_html(id, "review", a)
              \/ Resumes(a)) =>
                \A b \in Tokens \ {a} :
                    /\ SessionState(b)' = SessionState(b)
                    /\ AfterNext(b)' = AfterNext(b)
                    /\ \A idb \in HighlightIds :
                           AfterDiscard(idb, b)' = AfterDiscard(idb, b)]_vars

\* C22: an advance (mark reviewed, or discard in review) or a resuming
\* get-current on token a leaves the entry and the row of every other token
\* b unchanged; it leaves unchanged what a mark-reviewed advance on b would
\* do to the session of b, and what a discard in review on b would do
\* unless the step on a was the discard of the same highlight: then the
\* discard on b, sent second, undoes the discard and is not counted.
C22_NoInterference ==
    [][/\ EffectsAsComputed
       /\ \A a \in Tokens :
             /\ (\/ \E id \in Ids : ui_review_next(id, a)
                 \/ \E id \in HighlightIds : discard_highlight_html(id, "review", a)
                 \/ Resumes(a)) =>
                   \A b \in Tokens \ {a} :
                       /\ SessionState(b)' = SessionState(b)
                       /\ AfterNext(b)' = AfterNext(b)
             /\ \A id \in HighlightIds :
                   discard_highlight_html(id, "review", a) =>
                      \A b \in Tokens \ {a} :
                          /\ \A idb \in HighlightIds \ {id} :
                                 AfterDiscard(idb, b)' = AfterDiscard(idb, b)
                          /\ AfterDiscard(id, b)'.entry = AfterDiscard(id, b).entry
                          /\ AfterDiscard(id, b)'.row =
                                 <<[AfterDiscard(id, b).row[1] EXCEPT
                                       !.highlights_discarded =
                                          IF highlights[id].is_discarded
                                          THEN @ + 1 ELSE @ - 1]>>
             /\ ((\E id \in Ids : ui_review_next(id, a)) \/ Resumes(a)) =>
                   \A b \in Tokens \ {a}, idb \in HighlightIds :
                       AfterDiscard(idb, b)' = AfterDiscard(idb, b)]_vars

\* two sessions are in the store and one of them has been advanced by a
\* discard: the other still has its whole queue, cursor 0 and an untouched
\* row
C22_Witness ==
    /\ response.kind = "card"
    /\ \E a, b \in Tokens :
          /\ a /= b /\ Live(a) /\ Live(b)
          /\ review_sessions[a].current_index = 1
          /\ db_sessions[a].highlights_discarded = 1
          /\ review_sessions[b].current_index = 0
          /\ Len(review_sessions[b].highlight_ids) = 2
          /\ db_sessions[b].highlights_reviewed = 0
          /\ db_sessions[b].highlights_discarded = 0

\* C23: for every library and every integer N the selector returns a list
\* of at most max(N, 0) highlights and the empty list for N <= 0; a
\* candidate picked by either loop has left the pool: the list holds no
\* highlight twice, only candidates, and so is never longer than the pool.
C23_Terminates ==
    response.kind = "list" =>
        /\ Len(Items) <= Max(response.n, 0)
        /\ response.n <= 0 => Items = <<>>
        /\ Items /= <<>> =>
               LET pool == Candidates
               IN  /\ Len(Items) <= Cardinality(pool)
                   /\ \A i \in 1..Len(Items) :
                          /\ Items[i] \in pool
                          /\ \A j \in 1..Len(Items) : i /= j => Items[i] /= Items[j]

\* a negative N was asked of a library with candidates: the list is empty
C23_Witness ==
    /\ response.kind = "list" /\ response.n < 0
    /\ Cardinality(Positive) >= 2
    /\ Items = <<>>

\* C26 as stated: every entry of the in-memory store has
\* 0 <= cursor < length of its queue; no entry is stored with an exhausted
\* or an empty queue.
C26_CursorInQueue ==
    \A c \in DOMAIN review_sessions :
        /\ 0 <= review_sessions[c].current_index
        /\ review_sessions[c].current_index < Len(review_sessions[c].highlight_ids)

\* C26: every entry of the in-memory store has 0 <= cursor <= length of
\* its queue, and cursor = length only for a queue that was built empty
\* (cursor 0, length 0): an entry whose cursor reaches the length of its
\* queue by an advance is deleted in the same step, and an entry with an
\* empty queue is stored when a session is created while no highlight is
\* eligible.
C26_CursorInOrEmpty ==
    \A c \in DOMAIN review_sessions :
        /\ 0 <= review_sessions[c].current_index
        /\ \/ review_sessions[c].current_index < Len(review_sessions[c].highlight_ids)
           \/ /\ review_sessions[c].highlight_ids = <<>>
              /\ review_sessions[c].current_index = 0

\* the store holds the entry of a session created while nothing was
\* eligible and the entry of a later session with a highlight to show
C26_Witness ==
    /\ response.kind = "page"
    /\ \E a, b \in DOMAIN review_sessions :
          /\ review_sessions[a].highlight_ids = <<>>
          /\ review_sessions[a].current_index = 0
          /\ review_sessions[b].highlight_ids /= <<>>
          /\ response.token = b /\ response.item = CurrentItem(b)

\* highlights_reviewed + highlights_discarded of a durable row
Acted(row) == row.highlights_reviewed + row.highlights_discarded

\* C27: highlights_reviewed + highlights_discarded of a durable row is at
\* most the length of the queue built for its session: it is at most the
\* queue length while the entry is in the store and in the step that
\* completes the session, and a request that carries the token when it has
\* no entry in the store (after completion, expiry or loss) increases
\* neither counter.
C27_CountersBounded ==
    [][\A c \in Tokens :
          /\ Live(c)' => Acted(db_sessions'[c]) <= Len(review_sessions'[c].highlight_ids)
          /\ (Live(c) /\ ~Live(c)' /\ db_sessions'[c].is_completed) =>
                 Acted(db_sessions'[c]) <= Len(review_sessions[c].highlight_ids)
          /\ ~Live(c) => Acted(db_sessions'[c]) = Acted(db_sessions[c])]_vars

\* C28: an advance of a session (mark reviewed, or discard in review) acts
\* on the item at the cursor: a highlight whose state changes in the step is
\* queue[cursor] of the session before the step, and a request that names
\* another id changes no highlight and leaves the entry of the session as
\* it was.
C28_ActsOnCurrent ==
    [][\A c \in Tokens, id \in Ids :
          (/\ HasCurrent(c)
           /\ \/ ui_review_next(id, c)
              \/ id \in HighlightIds /\ discard_highlight_html(id, "review", c)) =>
             /\ \A h \in HighlightIds :
                    highlights'[h] /= highlights[h] => h = CurrentItem(c)
             /\ id /= CurrentItem(c) =>
                    /\ UNCHANGED highlights
                    /\ Live(c)' /\ review_sessions'[c] = review_sessions[c]]_vars

\* ---- properties of the book handlers (checked under SpecBooks) ----------

InRange(w) == w /= NaN /\ 0 <= w /\ w <= WeightMax

\* min(2.0, max(0.0, w)) as a number: the nearest weight of the range (0.0
\* for NaN, which Python's max(0.0, nan) gives)
Clamped(w) ==
    IF w = NaN THEN 0
    ELSE IF w < 0 THEN 0
    ELSE IF w > WeightMax THEN WeightMax
    ELSE w

\* C14: storage starts without books, and after every step the
\* review_weight of every book lies in [0.0, 2.0]; a book update stores min(2.0, max(0.0, submitted value)); the weight of a
\* book changes in no other step (import, cover and tag changes), and an
\* import creates a book with the default weight 1.0.
C14_WeightInRange ==
    [][/\ \A b \in DOMAIN books' : InRange(books'[b].review_weight)
       /\ \A b \in DOMAIN books, title \in Titles, w \in SubmittedWeights :
              ui_book_update(b, title, w)
                  => books'[b].review_weight = Clamped(w)
       /\ \A b \in DOMAIN books :
              books'[b].review_weight /= books[b].review_weight
                  => \E title \in Titles, w \in SubmittedWeights :
                         ui_book_update(b, title, w)
       /\ \A b \in DOMAIN books' \ DOMAIN books :
              books'[b].review_weight = WeightOne]_vars

\* a book was given the largest weight and another the smallest, and the
\* first one has had its cover and its tags changed since
C14_Witness ==
    \E b1, b2 \in DOMAIN books :
        /\ books[b1].review_weight = WeightMax
        /\ books[b1].cover_image_url /= None
        /\ books[b1].document_tags /= NoTags
        /\ books[b2].review_weight = 0
        /\ response.code = 200

\* ---- properties of the streaks (checked under SpecStreak) ---------------

\* the calendar days with at least one completed session
DatesDone ==
    {db_sessions[c].session_date : c \in {x \in DOMAIN db_sessions :
                                              db_sessions[x].is_completed}}

\* the number of consecutive days in DatesDone that end with day d
RunEnding(d) ==
    CHOOSE k \in 1..(MaxDay + 2) :
        /\ \A j \in 0..(k - 1) : d - j \in DatesDone
        /\ d - k \notin DatesDone

MostRecent == CHOOSE d \in DatesDone : \A x \in DatesDone : x <= d

\* C24: the current streak is 0 when there is no completed session or the
\* most recent session date is earlier than yesterday, and otherwise the
\* number of consecutive calendar days, counted backwards from the most
\* recent session date, that each have a completed session; several
\* sessions on one date count once.
C24_CurrentStreak ==
    response.kind = "dashboard" =>
        response.current_streak =
            IF DatesDone = {} THEN 0
            ELSE IF MostRecent < now - 1 THEN 0
            ELSE RunEnding(MostRecent)

\* two sessions were completed yesterday and one the day before, none
\* today: the streak is 2
C24_Witness ==
    /\ response.kind = "dashboard"
    /\ response.current_streak = 2
    /\ MostRecent = now - 1
    /\ Cardinality({c \in DOMAIN db_sessions :
                       db_sessions[c].is_completed
                       /\ db_sessions[c].session_date = now - 1}) = 2

\* C25: with at least one completed session the longest streak is the
\* length of the longest run of consecutive calendar days that each have a
\* completed session (several sessions may fall on one date), and is never
\* smaller than the current streak.
C25_LongestStreak ==
    (response.kind = "dashboard" /\ DatesDone /= {}) =>
        /\ \A d \in DatesDone : response.longest_streak >= RunEnding(d)
        /\ \E d \in DatesDone : response.longest_streak = RunEnding(d)
        /\ response.longest_streak >= response.current_streak

\* ---- properties of the duplicated flags (checked under SpecFlags) -------

FlagsAgree(h) ==
    /\ h.favorite = h.is_favorited
    /\ (h.status = "discarded") = h.is_discarded
    /\ h.status \in {"active", "discarded"}

====
